---- MODULE Spec2Model ----
(***************************************************************************)
(* Model of drivers/video/android/graphics_fbdev.c: the minui framebuffer  *)
(* backend (init, flip, blank, exit) over one registered fb device.        *)
(*                                                                         *)
(* Memory is modelled as a window of bytes starting at the address `bits`  *)
(* (fb->fix.mmio_start).  The first fb.smem_len bytes of the window are    *)
(* the device's video memory; the bytes after them are foreign memory that *)
(* happens to lie behind it.  A pointer is a record [base, off].           *)
(***************************************************************************)
EXTENDS Integers, Sequences, FiniteSets, TLC

(* ---------------------------------------------------------------- bounds *)
MaxYres == 2
MaxLineLength == 4
MaxFlips == 2
MaxDraws == 1

MaxExtent == MaxYres * MaxLineLength
AddrSpace == 2 * MaxExtent + 4

VARIABLES
    num_registered_fb,  \* number of registered fb devices (0 or 1)
    fb,                 \* registered_fb[0]: geometry the device reports
    hw,                 \* what the device has applied: var-screeninfo and power
    mem,                \* bytes at bits + 0 .. AddrSpace - 1
    RECOVERY_BGRA,      \* build flag
    gr_framebuffer,     \* static GRSurface gr_framebuffer[2]
    double_buffered,    \* static bool
    gr_draw,            \* static GRSurface* : "NULL", "fb0", "fb1", "heap"
    displayed_buffer,   \* static int
    vi,                 \* static struct fb_var_screeninfo
    fbi,                \* static struct fb_info* : "NULL" or "fb"
    heap,               \* the kmalloc'd GRSurface and its data block
    pc,                 \* caller's position in the backend's lifecycle
    ret,                \* value returned by the last init or flip
    issued,             \* device commands issued by the last operation
    span,               \* bytes read / written by the last flip's copy
    zero_fills,         \* memset(.., 0, ..) calls made by init
    oob,                \* some access fell outside device / heap memory
    flips, draws        \* calls made so far

vars == <<num_registered_fb, fb, hw, mem, RECOVERY_BGRA, gr_framebuffer,
          double_buffered, gr_draw, displayed_buffer, vi, fbi, heap, pc, ret,
          issued, span, zero_fills, oob, flips, draws>>

(* ------------------------------------------------- 32-bit arithmetic      *)
(* A machine word is a little-endian sequence of base-256 limbs, so that   *)
(* products are computed modulo 2^32 exactly as the hardware does.          *)
RECURSIVE Limbs(_, _)
Limbs(n, k) == IF k = 0 THEN <<>> ELSE <<n % 256>> \o Limbs(n \div 256, k - 1)

RECURSIVE ColSum(_, _, _, _)
ColSum(a, b, i, j) ==
    IF j > i THEN 0 ELSE a[j] * b[i + 1 - j] + ColSum(a, b, i, j + 1)

RECURSIVE MulFrom(_, _, _, _)
MulFrom(a, b, i, carry) ==
    IF i > Len(a) THEN <<>>
    ELSE LET s == ColSum(a, b, i, 1) + carry
         IN  <<s % 256>> \o MulFrom(a, b, i + 1, s \div 256)

\* product of two words of equal width, truncated to that width
MulLimbs(a, b) == MulFrom(a, b, 1, 0)

RECURSIVE LeqFrom(_, _, _)
LeqFrom(a, b, i) ==
    IF i = 0 THEN TRUE
    ELSE IF a[i] # b[i] THEN a[i] < b[i]
    ELSE LeqFrom(a, b, i - 1)

\* unsigned comparison a <= b of two words of equal width
LeqLimbs(a, b) == LeqFrom(a, b, Len(a))

U32(n) == Limbs(n, 4)

\* a 32-bit word read as a C int (two's complement)
ToInt32(l) ==
    IF l[4] >= 128
    THEN 0 - ((255 - l[4]) * 16777216 + (255 - l[3]) * 65536
              + (255 - l[2]) * 256 + (255 - l[1])) - 1
    ELSE l[4] * 16777216 + l[3] * 65536 + l[2] * 256 + l[1]

\* int * int as the kernel build computes it: the kernel is compiled with
\* -fno-strict-overflow, so the product wraps modulo 2^32
IntMul(a, b) == ToInt32(MulLimbs(U32(a), U32(b)))

\* faulty variant: the test forgets the factor 2
CanDoubleBuffer_Single(yres, line_length, smem_len) ==
    LeqLimbs(MulLimbs(U32(yres), U32(line_length)), U32(smem_len))

\* line 114: vi.yres * fi.line_length * 2 <= fi.smem_len, in __u32
CanDoubleBuffer(yres, line_length, smem_len) ==
    LeqLimbs(MulLimbs(MulLimbs(U32(yres), U32(line_length)), U32(2)),
             U32(smem_len))

(* ------------------------------------------------------------- surfaces  *)
NullPtr == [base |-> "null", off |-> 0]
Bits == [base |-> "fb", off |-> 0]          \* (void *) fb->fix.mmio_start
HeapPtr == [base |-> "heap", off |-> 0]

ZeroSurface ==
    [width |-> 0, height |-> 0, row_bytes |-> 0, pixel_bytes |-> 0,
     data |-> NullPtr]

\* height * row_bytes of a GRSurface, as the code computes it
Extent(s) == IntMul(s.height, s.row_bytes)

\* the GRSurface a GRSurface* points at
Deref(p, frame, hp) ==
    IF p = "fb0" THEN frame[0]
    ELSE IF p = "fb1" THEN frame[1]
    ELSE hp.surface

\* faulty variant: the fill stops one byte short
MemSet_Short(m, off, len, val) ==
    [i \in DOMAIN m |-> IF off <= i /\ i < off + len - 1 THEN val ELSE m[i]]

\* memset(p + off, val, len) on a block of bytes
MemSet(m, off, len, val) ==
    [i \in DOMAIN m |-> IF off <= i /\ i < off + len THEN val ELSE m[i]]

\* line 132: a fresh kmalloc block of the given size, its content stale
Kmalloc(size) == [i \in 0..(size - 1) |-> 170]

BlockSize(bytes) == Cardinality(DOMAIN bytes)

\* the range lies inside the device's video memory
InDevice(off, len, smem_len) == off >= 0 /\ off + len <= smem_len

(* --------------------------------------------------------------- device  *)
\* (yres, line_length) pairs the device may report: small ones, and two whose
\* product does not fit in 32 bits (100 * 42949673 = 2^32 + 4,
\* 65536 * 65536 = 2^32)
SizePairs ==
    ((1..MaxYres) \X (1..MaxLineLength))
        \cup {<<100, 42949673>>, <<65536, 65536>>}

\* video memory sizes around the two thresholds of an extent e
SmemChoices(e) == {m \in {e - 1, e, 2 * e - 1, 2 * e} : m >= 0}

\* a one-pixel-wide device: the depth that fills a row, 32 bits at most
PixelDepth(l) == IF l < 4 THEN 8 * l ELSE 32

\* the extent the code computes from every pair is at most MaxExtent, so
\* every buffer lies in the modelled window
Geometries ==
    UNION {{[yres |-> p[1], line_length |-> p[2], smem_len |-> m, xres |-> 1,
             bits_per_pixel |-> PixelDepth(p[2])] :
               m \in SmemChoices(IntMul(p[1], p[2]))} : p \in SizePairs}

Init ==
    /\ num_registered_fb \in {0, 1}
    /\ fb \in Geometries
    /\ hw = [yres_virtual |-> fb.yres, yoffset |-> 0,
             bits_per_pixel |-> fb.bits_per_pixel, blank |-> "UNBLANK"]
    /\ mem = [i \in 0..(AddrSpace - 1) |-> 170]      \* stale content
    /\ RECOVERY_BGRA \in BOOLEAN
    /\ gr_framebuffer = [i \in 0..1 |-> ZeroSurface]
    /\ double_buffered = FALSE
    /\ gr_draw = "NULL"
    /\ displayed_buffer = 0
    /\ vi = [xres |-> 0, yres |-> 0, yres_virtual |-> 0, yoffset |-> 0,
             bits_per_pixel |-> 0]
    /\ fbi = "NULL"
    /\ heap = [desc |-> "none", surface |-> ZeroSurface, data |-> "none",
               bytes |-> Kmalloc(0), desc_frees |-> 0, data_frees |-> 0]
    /\ pc = "start"
    /\ ret = "none"
    /\ issued = <<>>
    /\ span = [rd |-> 0, wr |-> 0]
    /\ zero_fills = {}
    /\ oob = FALSE
    /\ flips = 0
    /\ draws = 0

(* ------------------------------------------------------- device commands *)
\* faulty variant: a power-down sent to a powered-down device wakes it
fbdev_blank_op_Toggles(st, blank, ok) ==
    LET mode == IF blank THEN "POWERDOWN" ELSE "UNBLANK"
        next == IF blank /\ st.hw.blank = "POWERDOWN" THEN "UNBLANK" ELSE mode
    IN  [st EXCEPT !.hw = IF ok THEN [@ EXCEPT !.blank = next] ELSE @,
                   !.issued = Append(@, [cmd |-> "FBIOBLANK", mode |-> mode,
                                         info |-> st.vi, ok |-> ok,
                                         zeroed |-> st.zero_fills])]

\* faulty variant: the two power modes are exchanged
fbdev_blank_op_Inverted(st, blank, ok) ==
    LET mode == IF blank THEN "UNBLANK" ELSE "POWERDOWN"
    IN  [st EXCEPT !.hw = IF ok THEN [@ EXCEPT !.blank = mode] ELSE @,
                   !.issued = Append(@, [cmd |-> "FBIOBLANK", mode |-> mode,
                                         info |-> st.vi, ok |-> ok,
                                         zeroed |-> st.zero_fills])]

\* lines 47-54.  st carries the fields the command helpers read and write;
\* each command issued is logged with the zero-fills completed before it.
fbdev_blank_op(st, blank, ok) ==
    LET mode == IF blank THEN "POWERDOWN" ELSE "UNBLANK"
    IN  [st EXCEPT !.hw = IF ok THEN [@ EXCEPT !.blank = mode] ELSE @,
                   !.issued = Append(@, [cmd |-> "FBIOBLANK", mode |-> mode,
                                         info |-> st.vi, ok |-> ok,
                                         zeroed |-> st.zero_fills])]

\* faulty variant: the record pushed keeps the offset it had
set_displayed_framebuffer_StaleOffset(n, st, ok) ==
    IF n > 1 \/ ~st.double_buffered THEN st
    ELSE LET v == [st.vi EXCEPT
                     !.yres_virtual = st.gr_framebuffer[0].height * 2,
                     !.bits_per_pixel = st.gr_framebuffer[0].pixel_bytes * 8]
         IN  [st EXCEPT
                !.vi = v,
                !.hw = IF ok THEN [@ EXCEPT !.yres_virtual = v.yres_virtual,
                                            !.yoffset = v.yoffset,
                                            !.bits_per_pixel = v.bits_per_pixel]
                       ELSE @,
                !.issued = Append(@, [cmd |-> "FBIOPUT_VSCREENINFO",
                                      mode |-> "-", info |-> v, ok |-> ok,
                                      zeroed |-> st.zero_fills]),
                !.displayed_buffer = n]

\* faulty variant: a rejected commit aborts before displayed_buffer is set
set_displayed_framebuffer_Abort(n, st, ok) ==
    IF n > 1 \/ ~st.double_buffered THEN st
    ELSE LET v == [st.vi EXCEPT
                     !.yres_virtual = st.gr_framebuffer[0].height * 2,
                     !.yoffset = n * st.gr_framebuffer[0].height,
                     !.bits_per_pixel = st.gr_framebuffer[0].pixel_bytes * 8]
         IN  [st EXCEPT
                !.vi = v,
                !.hw = IF ok THEN [@ EXCEPT !.yres_virtual = v.yres_virtual,
                                            !.yoffset = v.yoffset,
                                            !.bits_per_pixel = v.bits_per_pixel]
                       ELSE @,
                !.issued = Append(@, [cmd |-> "FBIOPUT_VSCREENINFO",
                                      mode |-> "-", info |-> v, ok |-> ok,
                                      zeroed |-> st.zero_fills]),
                !.displayed_buffer = IF ok THEN n ELSE @]

\* lines 56-67
set_displayed_framebuffer(n, st, ok) ==
    IF n > 1 \/ ~st.double_buffered THEN st
    ELSE LET v == [st.vi EXCEPT
                     !.yres_virtual = st.gr_framebuffer[0].height * 2,
                     !.yoffset = n * st.gr_framebuffer[0].height,
                     !.bits_per_pixel = st.gr_framebuffer[0].pixel_bytes * 8]
         IN  [st EXCEPT
                !.vi = v,
                !.hw = IF ok THEN [@ EXCEPT !.yres_virtual = v.yres_virtual,
                                            !.yoffset = v.yoffset,
                                            !.bits_per_pixel = v.bits_per_pixel]
                       ELSE @,
                !.issued = Append(@, [cmd |-> "FBIOPUT_VSCREENINFO",
                                      mode |-> "-", info |-> v, ok |-> ok,
                                      zeroed |-> st.zero_fills]),
                !.displayed_buffer = n]

\* the fields the command helpers work on, taken from the current state
CmdState ==
    [double_buffered |-> double_buffered, gr_framebuffer |-> gr_framebuffer,
     vi |-> vi, hw |-> hw, displayed_buffer |-> displayed_buffer,
     issued |-> <<>>, zero_fills |-> zero_fills]

(* ------------------------------------------------------------ fbdev_init *)
\* lines 106-110: the descriptor of the device's primary buffer
PrimarySurface(v, fi) ==
    [width |-> v.xres, height |-> v.yres, row_bytes |-> fi.line_length,
     pixel_bytes |-> v.bits_per_pixel \div 8, data |-> Bits]

\* faulty variant: the second buffer starts one row behind the first
SecondSurface_OneRow(s0) ==
    [s0 EXCEPT !.data = [base |-> s0.data.base,
                         off |-> s0.data.off + s0.row_bytes]]

\* lines 117-119: the second buffer, placed right behind the first
SecondSurface(s0) ==
    [s0 EXCEPT !.data = [base |-> s0.data.base,
                         off |-> s0.data.off + Extent(s0)]]

\* lines 130-132: the shadow descriptor, a copy of the primary one with its
\* data pointer replaced by the block kmalloc returned (NULL on failure)
ShadowSurface(s0, okData) ==
    [s0 EXCEPT !.data = IF okData THEN HeapPtr ELSE NullPtr]

\* faulty variant: vi is filled in before the device count is tested
InitNoDevice_Queries ==
    /\ num_registered_fb = 0
    /\ pc' = "init_failed"
    /\ ret' = "NULL"
    /\ vi' = [vi EXCEPT !.xres = fb.xres, !.yres = fb.yres]
    /\ UNCHANGED <<mem, gr_framebuffer, double_buffered, gr_draw,
                   displayed_buffer, fbi, heap, zero_fills, oob>>
    /\ issued' = <<>>
    /\ UNCHANGED hw

\* line 74: no fb device is registered
InitNoDevice ==
    /\ num_registered_fb = 0
    /\ pc' = "init_failed"
    /\ ret' = "NULL"
    /\ UNCHANGED <<mem, gr_framebuffer, double_buffered, gr_draw,
                   displayed_buffer, vi, fbi, heap, zero_fills, oob>>
    /\ issued' = <<>>
    /\ UNCHANGED hw

\* the kernel faults (NULL dereference, or a write far outside any mapping)
InitCrash ==
    /\ pc' = "crashed"
    /\ ret' = "none"
    /\ oob' = TRUE
    /\ issued' = <<>>
    /\ UNCHANGED <<mem, gr_framebuffer, double_buffered, gr_draw,
                   displayed_buffer, vi, fbi, heap, zero_fills, hw>>

\* lines 76-148 with a device present.  okDesc, okData: the two kmalloc
\* calls succeed; okPut, okB1, okB2: the three device commands succeed;
\* survive: an out-of-bounds write did not fault.
InitDevice(okDesc, okData, okPut, okB1, okB2, survive) ==
    LET fi   == [line_length |-> fb.line_length, smem_len |-> fb.smem_len]
        vi1  == [xres |-> fb.xres, yres |-> fb.yres,
                 yres_virtual |-> hw.yres_virtual, yoffset |-> hw.yoffset,
                 bits_per_pixel |-> fb.bits_per_pixel]
        mem1 == MemSet(mem, 0, fb.smem_len, 0)                  \* line 104
        s0   == PrimarySurface(vi1, fi)
        e    == Extent(s0)
        mem2 == MemSet(mem1, s0.data.off, e, 0)                 \* line 111
        oob1 == ~InDevice(s0.data.off, e, fb.smem_len)
        z1   == {[base |-> "fb", off |-> 0, len |-> fb.smem_len],
                 [base |-> "fb", off |-> s0.data.off, len |-> e]}
        hard == CanDoubleBuffer(vi1.yres, fi.line_length, fi.smem_len)
        s1   == SecondSurface(s0)
        oob2 == ~InDevice(s1.data.off, e, fb.smem_len)
        mem3 == MemSet(mem2, s1.data.off, e, 0)                 \* line 139
        frame0 == [gr_framebuffer EXCEPT ![0] = s0]
    IN
    /\ num_registered_fb # 0
    /\ IF oob1 /\ ~survive THEN InitCrash
       ELSE IF hard THEN
         IF oob2 /\ ~survive THEN InitCrash
         ELSE
           LET frame == [frame0 EXCEPT ![1] = s1]
               z2  == z1 \cup {[base |-> "fb", off |-> s1.data.off,
                                  len |-> e]}                   \* line 139
               st0 == [double_buffered |-> TRUE, gr_framebuffer |-> frame,
                       vi |-> vi1, hw |-> hw,
                       displayed_buffer |-> displayed_buffer,
                       issued |-> <<>>, zero_fills |-> z2]
               st1 == set_displayed_framebuffer(0, st0, okPut)  \* line 141
               st2 == fbdev_blank_op(st1, TRUE, okB1)           \* line 145
               st3 == fbdev_blank_op(st2, FALSE, okB2)          \* line 146
           IN
           /\ mem' = mem3
           /\ gr_framebuffer' = frame
           /\ double_buffered' = TRUE
           /\ gr_draw' = "fb1"                                  \* line 121
           /\ fbi' = "fb"                                       \* line 140
           /\ vi' = st3.vi
           /\ hw' = st3.hw
           /\ displayed_buffer' = st3.displayed_buffer
           /\ issued' = st3.issued
           /\ zero_fills' = z2
           /\ oob' = (oob1 \/ oob2)
           /\ ret' = "fb1"                                      \* line 148
           /\ pc' = "ready"
           /\ UNCHANGED heap
       ELSE IF ~okDesc THEN InitCrash                           \* line 131
       ELSE IF ~okData THEN                                     \* line 133
           /\ mem' = mem2
           /\ gr_framebuffer' = frame0
           /\ double_buffered' = FALSE
           /\ gr_draw' = "heap"                                 \* line 130
           /\ heap' = [heap EXCEPT !.desc = "live", !.data = "null",
                                   !.surface = ShadowSurface(s0, FALSE)]
           /\ vi' = vi1
           /\ zero_fills' = z1
           /\ oob' = oob1
           /\ issued' = <<>>
           /\ ret' = "NULL"                                     \* line 135
           /\ pc' = "init_failed"
           /\ UNCHANGED <<fbi, hw, displayed_buffer>>
       ELSE
           LET z2  == z1 \cup {[base |-> "heap", off |-> 0, len |-> e]}
                                                                \* line 139
               st0 == [double_buffered |-> FALSE, gr_framebuffer |-> frame0,
                       vi |-> vi1, hw |-> hw,
                       displayed_buffer |-> displayed_buffer,
                       issued |-> <<>>, zero_fills |-> z2]
               st1 == set_displayed_framebuffer(0, st0, okPut)  \* line 141
               st2 == fbdev_blank_op(st1, TRUE, okB1)           \* line 145
               st3 == fbdev_blank_op(st2, FALSE, okB2)          \* line 146
           IN
           /\ mem' = mem2
           /\ gr_framebuffer' = frame0
           /\ double_buffered' = FALSE
           /\ gr_draw' = "heap"
           /\ heap' = [heap EXCEPT !.desc = "live", !.data = "live",
                                   !.surface = ShadowSurface(s0, TRUE),
                                   !.bytes = MemSet(Kmalloc(e), 0, e, 0)]
                                                                \* line 139
           /\ fbi' = "fb"
           /\ vi' = st3.vi
           /\ hw' = st3.hw
           /\ displayed_buffer' = st3.displayed_buffer
           /\ issued' = st3.issued
           /\ zero_fills' = z2
           /\ oob' = oob1
           /\ ret' = "heap"
           /\ pc' = "ready"

fbdev_init ==
    /\ pc = "start"
    /\ \/ InitNoDevice
       \/ \E okDesc, okData, okPut, okB1, okB2, survive \in BOOLEAN :
            InitDevice(okDesc, okData, okPut, okB1, okB2, survive)
    /\ UNCHANGED <<num_registered_fb, fb, RECOVERY_BGRA, span, flips, draws>>

(* ------------------------------------------------------------ fbdev_flip *)
\* faulty variant: the memcpy leaves out the last byte
CopyLen_Short(e, bgra) == IF bgra THEN ((e + 3) \div 4) * 4 ELSE e - 1

\* lines 165 / 173: the number of bytes the copy loop touches.  The swapping
\* loop advances four bytes at a time while idx < height * row_bytes.
CopyLen(e, bgra) == IF bgra THEN ((e + 3) \div 4) * 4 ELSE e

\* lines 166-169 / 172: the source index copied to destination index j
SrcIndex(j, bgra) ==
    IF bgra THEN (j - (j % 4)) + <<2, 1, 0, 3>>[(j % 4) + 1] ELSE j

\* a read of the shadow block; past its end it yields whatever lies there
SrcByte(bytes, i, garbage) == IF i \in DOMAIN bytes THEN bytes[i] ELSE garbage

\* lines 161-174: the copy from the shadow block to the primary buffer
CopyToDevice(m, dst, bytes, e, bgra, garbage) ==
    [i \in DOMAIN m |->
        IF dst <= i /\ i < dst + CopyLen(e, bgra)
        THEN SrcByte(bytes, SrcIndex(i - dst, bgra), garbage)
        ELSE m[i]]

\* faulty variant: flip hands out the buffer that is not displayed yet
FlipDraw_Hidden(displayed) == IF displayed = 0 THEN "fb1" ELSE "fb0"

\* line 156: the surface flip hands out in double-buffered mode
FlipDraw(displayed) == IF displayed = 0 THEN "fb0" ELSE "fb1"

\* faulty variant: flip presents the buffer already displayed
FlipTarget_Same(displayed) == displayed

\* line 157: the buffer flip asks the device to present
FlipTarget(displayed) == 1 - displayed

FlipHardware(okPut) ==
    LET st0 == [CmdState EXCEPT !.issued = <<>>]
        st1 == set_displayed_framebuffer(FlipTarget(displayed_buffer), st0,
                                         okPut)
    IN
    /\ double_buffered
    /\ gr_draw' = FlipDraw(displayed_buffer)
    /\ vi' = st1.vi
    /\ hw' = st1.hw
    /\ displayed_buffer' = st1.displayed_buffer
    /\ issued' = st1.issued
    /\ ret' = gr_draw'
    /\ span' = [rd |-> 0, wr |-> 0]
    /\ pc' = pc
    /\ UNCHANGED <<mem, heap, oob>>

\* faulty variant: after the copy, flip hands out the primary buffer
FlipSoftware_Primary(garbage, survive) ==
    LET src == Deref(gr_draw, gr_framebuffer, heap)
        e   == Extent(src)
        n   == CopyLen(e, RECOVERY_BGRA)
        dst == gr_framebuffer[0].data.off
        bad == \/ n > BlockSize(heap.bytes)
               \/ ~InDevice(dst, n, fb.smem_len)
    IN
    /\ ~double_buffered
    /\ IF bad /\ ~survive
       THEN /\ pc' = "crashed"
            /\ ret' = "none"
            /\ oob' = TRUE
            /\ UNCHANGED <<mem, span>>
       ELSE /\ mem' = CopyToDevice(mem, dst, heap.bytes, e, RECOVERY_BGRA,
                                   garbage)
            /\ span' = [rd |-> n, wr |-> n]
            /\ oob' = (oob \/ bad)
            /\ ret' = "fb0"
            /\ pc' = pc
    /\ issued' = <<>>
    /\ UNCHANGED <<gr_draw, vi, hw, displayed_buffer, heap>>

\* lines 158-176
FlipSoftware(garbage, survive) ==
    LET src == Deref(gr_draw, gr_framebuffer, heap)
        e   == Extent(src)
        n   == CopyLen(e, RECOVERY_BGRA)
        dst == gr_framebuffer[0].data.off
        bad == \/ n > BlockSize(heap.bytes)
               \/ ~InDevice(dst, n, fb.smem_len)
    IN
    /\ ~double_buffered
    /\ IF bad /\ ~survive
       THEN /\ pc' = "crashed"
            /\ ret' = "none"
            /\ oob' = TRUE
            /\ UNCHANGED <<mem, span>>
       ELSE /\ mem' = CopyToDevice(mem, dst, heap.bytes, e, RECOVERY_BGRA,
                                   garbage)
            /\ span' = [rd |-> n, wr |-> n]
            /\ oob' = (oob \/ bad)
            /\ ret' = gr_draw
            /\ pc' = pc
    /\ issued' = <<>>
    /\ UNCHANGED <<gr_draw, vi, hw, displayed_buffer, heap>>

fbdev_flip ==
    /\ pc = "ready"
    /\ flips < MaxFlips
    /\ \/ \E okPut \in BOOLEAN : FlipHardware(okPut)
       \/ \E garbage \in {0, 170}, survive \in BOOLEAN :
            FlipSoftware(garbage, survive)
    /\ flips' = flips + 1
    /\ UNCHANGED <<num_registered_fb, fb, RECOVERY_BGRA, gr_framebuffer,
                   double_buffered, fbi, zero_fills, draws>>

(* ----------------------------------------------------------- fbdev_blank *)
\* faulty variant: a power-down also rewinds the presentation to buffer 0
fbdev_blank_Rewinds ==
    /\ pc = "ready"
    /\ \E blank, ok \in BOOLEAN :
         LET st == fbdev_blank_op([CmdState EXCEPT !.issued = <<>>], blank, ok)
         IN  /\ hw' = st.hw
             /\ issued' = st.issued
             /\ displayed_buffer' = IF blank THEN 0 ELSE displayed_buffer
    /\ UNCHANGED <<num_registered_fb, fb, mem, RECOVERY_BGRA, gr_framebuffer,
                   double_buffered, gr_draw, vi, fbi, heap,
                   pc, ret, span, zero_fills, oob, flips, draws>>

\* lines 47-54, called by the client on a running backend
fbdev_blank ==
    /\ pc = "ready"
    /\ \E blank, ok \in BOOLEAN :
         LET st == fbdev_blank_op([CmdState EXCEPT !.issued = <<>>], blank, ok)
         IN  /\ hw' = st.hw
             /\ issued' = st.issued
    /\ UNCHANGED <<num_registered_fb, fb, mem, RECOVERY_BGRA, gr_framebuffer,
                   double_buffered, gr_draw, displayed_buffer, vi, fbi, heap,
                   pc, ret, span, zero_fills, oob, flips, draws>>

(* ------------------------------------------------------------ fbdev_exit *)
\* faulty variant: the descriptor is not freed
ReleaseShadow_Leak(hp, db, draw) ==
    IF ~db /\ draw # "NULL"
    THEN [hp EXCEPT
            !.data = IF @ = "live" THEN "freed" ELSE @,
            !.data_frees = IF hp.data = "live" THEN @ + 1 ELSE @]
    ELSE hp

\* lines 180-183: the two kfree calls under the software strategy
ReleaseShadow(hp, db, draw) ==
    IF ~db /\ draw # "NULL"
    THEN [hp EXCEPT
            !.data = IF @ = "live" THEN "freed" ELSE @,
            !.data_frees = IF hp.data = "live" THEN @ + 1 ELSE @,
            !.desc = "freed",
            !.desc_frees = @ + 1]
    ELSE hp

\* faulty variant: teardown also clears the strategy flag
fbdev_exit_ClearsFlag ==
    /\ pc \in {"ready", "init_failed"}
    /\ heap' = ReleaseShadow(heap, double_buffered, gr_draw)
    /\ gr_draw' = "NULL"
    /\ double_buffered' = FALSE
    /\ pc' = "closed"
    /\ issued' = <<>>
    /\ UNCHANGED <<num_registered_fb, fb, hw, mem, RECOVERY_BGRA,
                   gr_framebuffer, displayed_buffer, vi, fbi,
                   ret, span, zero_fills, oob, flips, draws>>

\* lines 179-185
fbdev_exit ==
    /\ pc \in {"ready", "init_failed"}
    /\ heap' = ReleaseShadow(heap, double_buffered, gr_draw)
    /\ gr_draw' = "NULL"                                        \* line 184
    /\ pc' = "closed"
    /\ issued' = <<>>
    /\ UNCHANGED <<num_registered_fb, fb, hw, mem, RECOVERY_BGRA,
                   gr_framebuffer, double_buffered, displayed_buffer, vi, fbi,
                   ret, span, zero_fills, oob, flips, draws>>

(* ------------------------------------------------------------ the caller *)
\* the colour the caller paints at byte i: the four channels of a pixel
\* get four different values
Ink(i) == 1 + (i % 4)

\* the caller stores one byte into the surface it was handed
Draw ==
    /\ pc = "ready"
    /\ draws < MaxDraws
    /\ LET s == Deref(gr_draw, gr_framebuffer, heap)
       IN  \E i \in 0..(Extent(s) - 1) :
             IF s.data.base = "heap"
             THEN /\ heap' = [heap EXCEPT !.bytes[i] = Ink(i)]
                  /\ UNCHANGED mem
             ELSE /\ mem' = [mem EXCEPT ![s.data.off + i] = Ink(i)]
                  /\ UNCHANGED heap
    /\ draws' = draws + 1
    /\ UNCHANGED <<num_registered_fb, fb, hw, RECOVERY_BGRA, gr_framebuffer,
                   double_buffered, gr_draw, displayed_buffer, vi, fbi, pc,
                   ret, issued, span, zero_fills, oob, flips>>

Next ==
    \/ fbdev_init
    \/ fbdev_flip
    \/ fbdev_blank
    \/ fbdev_exit
    \/ Draw

Spec == Init /\ [][Next]_vars

(* ================================================================ claims *)
\* the surface gr_draw points at
DrawSurface == Deref(gr_draw, gr_framebuffer, heap)

\* the byte at p + i
ByteAt(p, i) == IF p.base = "heap" THEN heap.bytes[p.off + i] ELSE mem[p.off + i]

\* n bytes at p are storage the surface may use: device video memory, or the
\* live kmalloc block
Allocated(p, n) ==
    IF p.base = "fb" THEN InDevice(p.off, n, fb.smem_len)
    ELSE IF p.base = "heap"
         THEN heap.data = "live" /\ p.off = 0 /\ n <= BlockSize(heap.bytes)
    ELSE FALSE

\* init zero-filled the n bytes at p
ZeroFilled(p, n) ==
    \E z \in zero_fills :
        z.base = p.base /\ z.off <= p.off /\ p.off + n <= z.off + z.len

U64(n) == Limbs(n, 8)

\* yres * line_length * 2 <= smem_len over the integers (no 32-bit wrap)
MathDoubleFits(g) ==
    LeqLimbs(MulLimbs(MulLimbs(U64(g.yres), U64(g.line_length)), U64(2)),
             U64(g.smem_len))

Hardware == pc = "ready" /\ double_buffered
Software == pc = "ready" /\ ~double_buffered

\* a flip that returned (it did not fault)
FlipStep == pc = "ready" /\ pc' = "ready" /\ flips' = flips + 1

\* C1: in hardware double-buffered mode the displayed index is 0 after init
\* and every flip toggles it, so after k flips it is k mod 2, whatever blank
\* calls are interleaved.
C1_FlipAlternation == Hardware => displayed_buffer = flips % 2

C1_Witness ==
    /\ Hardware /\ flips = 2 /\ displayed_buffer = 0
    /\ Len(issued) = 1 /\ issued[1].cmd = "FBIOBLANK"

\* C2: in hardware double-buffered mode, after init and after each flip, the
\* draw surface is gr_framebuffer[1 - displayed_buffer]: buffer 1 right after
\* init, and flip never returns the buffer recorded as displayed.
C2_DrawComplement ==
    Hardware =>
        /\ gr_draw = (IF displayed_buffer = 0 THEN "fb1" ELSE "fb0")
        /\ ret = gr_draw
        /\ flips = 0 => (gr_draw = "fb1" /\ displayed_buffer = 0)

C2_Witness ==
    Hardware /\ flips = 1 /\ gr_draw = "fb0" /\ ret = "fb0"
        /\ displayed_buffer = 1

\* C3: for every geometry with yres * line_length * 2 <= smem_len, a
\* successful init selects double buffering and describes two buffers of the
\* same width, height, row_bytes and pixel_bytes, the second lying exactly
\* height * row_bytes after the first inside the device's video memory.
C3_HardwareSelection ==
    (pc = "ready" /\ MathDoubleFits(fb)) =>
        LET a == gr_framebuffer[0]
            b == gr_framebuffer[1]
        IN  /\ double_buffered
            /\ a.height = fb.yres /\ a.row_bytes = fb.line_length
            /\ a.width = b.width /\ a.height = b.height
            /\ a.row_bytes = b.row_bytes /\ a.pixel_bytes = b.pixel_bytes
            /\ a.data.base = "fb" /\ b.data.base = "fb"
            /\ b.data.off - a.data.off = a.height * a.row_bytes
            /\ InDevice(a.data.off, a.height * a.row_bytes, fb.smem_len)
            /\ InDevice(b.data.off, b.height * b.row_bytes, fb.smem_len)

C3_Witness ==
    /\ pc = "ready" /\ MathDoubleFits(fb) /\ double_buffered
    /\ fb.yres = 2 /\ fb.line_length = 4
    /\ gr_framebuffer[1].data.off = 8

\* C4: for every geometry whose product yres * line_length * 2, taken over
\* the integers, exceeds smem_len, init selects software shadow buffering and
\* the draw surface's storage is a separate allocation, not device memory;
\* products that do not fit in 32 bits included.
C4_SoftwareSelection ==
    (pc = "ready" /\ ~MathDoubleFits(fb)) =>
        /\ ~double_buffered
        /\ gr_draw = "heap"
        /\ DrawSurface.data.base = "heap"

\* C5: when the allocation of the shadow buffer's storage fails, init returns
\* no surface and leaves nothing behind: gr_draw points at no descriptor and
\* no allocated descriptor is outstanding.
C5_AllocFailureLeavesNothing ==
    (pc = "init_failed" /\ num_registered_fb # 0) =>
        /\ ret = "NULL"
        /\ gr_draw = "NULL"
        /\ heap.desc # "live"

\* C6: in every state after a successful init and before teardown, under
\* either strategy, gr_draw is non-null and its data buffer is allocated for
\* the height * row_bytes bytes the code uses and was zero-filled by init.
C6_DrawValid ==
    pc = "ready" =>
        /\ gr_draw # "NULL"
        /\ Allocated(DrawSurface.data, Extent(DrawSurface))
        /\ ZeroFilled(DrawSurface.data, Extent(DrawSurface))

C6_Witness ==
    /\ pc = "ready" /\ flips = 1 /\ draws = 1 /\ gr_draw = "fb0"
    /\ Extent(DrawSurface) = 4
    /\ Allocated(DrawSurface.data, 4)

\* C7: right after a successful init, under either strategy, every byte of
\* the returned draw surface over its height * row_bytes extent is zero.
C7_ZeroedAfterInit ==
    (pc = "ready" /\ flips = 0 /\ draws = 0) =>
        \A i \in 0..(Extent(DrawSurface) - 1) : ByteAt(DrawSurface.data, i) = 0

C7_Witness ==
    /\ pc = "ready" /\ flips = 0 /\ draws = 0
    /\ gr_draw = "heap" /\ ret = "heap"
    /\ Extent(DrawSurface) = 8
    /\ \A i \in 0..7 : heap.bytes[i] = 0

\* C8: in software mode without channel swapping, when flip returns the
\* device's primary buffer equals the shadow buffer byte for byte over the
\* height * row_bytes extent, and the shadow buffer is unchanged.
C8_DirectCopy ==
    [][(FlipStep /\ ~double_buffered /\ ~RECOVERY_BGRA) =>
         /\ heap' = heap
         /\ \A i \in 0..(Extent(heap.surface) - 1) :
              mem'[gr_framebuffer[0].data.off + i] = heap.bytes[i]]_vars

C8_Witness ==
    /\ Software /\ ~RECOVERY_BGRA /\ flips = 1 /\ draws = 1
    /\ Extent(heap.surface) = 8
    /\ \E i \in 0..7 : heap.bytes[i] # 0
    /\ \A i \in 0..7 : mem[gr_framebuffer[0].data.off + i] = heap.bytes[i]

\* C9: in software mode with channel swapping, after flip every 4-byte pixel
\* (r,g,b,a) of the shadow buffer inside the extent appears as (b,g,r,a) at
\* the same place in device memory, and no byte outside the extent is read
\* or written.
C9_SwappedCopy ==
    [][(FlipStep /\ ~double_buffered /\ RECOVERY_BGRA) =>
         LET e == Extent(heap.surface)
             d == gr_framebuffer[0].data.off
         IN  /\ \A k \in 0..(e \div 4) :
                  (4 * k + 3 < e) =>
                      /\ mem'[d + 4 * k]     = heap.bytes[4 * k + 2]
                      /\ mem'[d + 4 * k + 1] = heap.bytes[4 * k + 1]
                      /\ mem'[d + 4 * k + 2] = heap.bytes[4 * k]
                      /\ mem'[d + 4 * k + 3] = heap.bytes[4 * k + 3]
             /\ span'.rd <= e
             /\ span'.wr <= e]_vars

\* C10: teardown under the software strategy releases the shadow block and
\* its descriptor exactly once; under the hardware strategy it releases
\* nothing and leaves the two descriptors and device memory alone; either
\* way gr_draw is null afterwards.
C10_Teardown ==
    [][(pc = "ready" /\ pc' = "closed") =>
         /\ gr_draw' = "NULL"
         /\ IF double_buffered
            THEN /\ heap' = heap
                 /\ gr_framebuffer' = gr_framebuffer
                 /\ mem' = mem
            ELSE /\ heap'.data = "freed" /\ heap'.data_frees = 1
                 /\ heap'.desc = "freed" /\ heap'.desc_frees = 1]_vars

C10_Witness ==
    /\ pc = "closed" /\ ~double_buffered /\ gr_draw = "NULL"
    /\ heap.data = "freed" /\ heap.data_frees = 1
    /\ heap.desc = "freed" /\ heap.desc_frees = 1

\* a hardware flip whose offset commit the device rejected
RejectedFlip ==
    /\ pc = "ready" /\ double_buffered /\ flips' = flips + 1
    /\ Len(issued') >= 1 /\ ~issued'[1].ok

\* C11: in hardware double-buffered mode, when the device rejects the offset
\* commit issued by flip, flip still returns a non-null draw surface, the
\* bookkeeping advances as on success (displayed_buffer toggles, gr_draw
\* becomes the buffer displayed before, vi carries the new offset), and the
\* command is issued once only.
C11_CommitFailureNonFatal ==
    [][RejectedFlip =>
         /\ pc' = "ready"
         /\ ret' # "NULL" /\ ret' = gr_draw'
         /\ displayed_buffer' = 1 - displayed_buffer
         /\ gr_draw' = (IF displayed_buffer = 0 THEN "fb0" ELSE "fb1")
         /\ vi'.yoffset = (1 - displayed_buffer) * gr_framebuffer[0].height
         /\ Len(issued') = 1
         /\ issued'[1].cmd = "FBIOPUT_VSCREENINFO"
         /\ hw' = hw]_vars

C11_Witness ==
    /\ Hardware /\ flips = 1
    /\ Len(issued) = 1 /\ issued[1].cmd = "FBIOPUT_VSCREENINFO"
    /\ ~issued[1].ok
    /\ displayed_buffer = 1 /\ gr_draw = "fb0" /\ ret = "fb0"
    /\ hw.yoffset = 0

\* C12: when no display device is registered, init returns no surface without
\* issuing a device command, writing device memory, or changing gr_draw,
\* double_buffered, displayed_buffer, the buffer descriptors or vi.
C12_NoDevice ==
    [][(pc = "start" /\ num_registered_fb = 0) =>
         /\ pc' = "init_failed"
         /\ ret' = "NULL"
         /\ issued' = <<>>
         /\ hw' = hw
         /\ mem' = mem
         /\ UNCHANGED <<gr_draw, double_buffered, displayed_buffer,
                        gr_framebuffer, vi, fbi, heap>>]_vars

C12_Witness ==
    /\ pc = "init_failed" /\ num_registered_fb = 0
    /\ ret = "NULL" /\ gr_draw = "NULL" /\ issued = <<>>
    /\ \A i \in DOMAIN mem : mem[i] = 170

\* a blank call on a running backend
BlankStep ==
    /\ pc = "ready" /\ flips' = flips /\ draws' = draws
    /\ Len(issued') = 1 /\ issued'[1].cmd = "FBIOBLANK"

\* C13: a blank call, on or off, accepted or rejected by the device, returns
\* normally and leaves gr_draw, displayed_buffer, double_buffered, both buffer
\* descriptors, vi and the contents of every buffer unchanged.
C13_BlankLeavesPresentation ==
    [][BlankStep =>
         /\ pc' = "ready"
         /\ UNCHANGED <<gr_draw, displayed_buffer, double_buffered,
                        gr_framebuffer, vi>>
         /\ mem' = mem
         /\ heap' = heap
         /\ ret' = ret]_vars

C13_Witness ==
    /\ Hardware /\ flips = 1 /\ draws = 1 /\ displayed_buffer = 1
    /\ Len(issued) = 1 /\ issued[1].cmd = "FBIOBLANK"
    /\ issued[1].mode = "POWERDOWN" /\ ~issued[1].ok
    /\ hw.blank = "UNBLANK"
    /\ \E i \in DOMAIN mem : mem[i] \in 1..4

IsPower(c) == c.cmd = "FBIOBLANK"

\* the zero-fill of the draw surface that init returns
DrawFill(draw, frame, hp) ==
    LET d == Deref(draw, frame, hp)
    IN  [base |-> d.data.base, off |-> d.data.off, len |-> Extent(d)]

\* C14: every successful init issues exactly two power commands, power-down
\* then unblank, both after the draw buffer was zero-filled and after the
\* initial offset commit, so the last command of init is the unblank; an
\* init that fails issues no power command.
C14_InitPowerSequence ==
    [][/\ (pc = "start" /\ pc' = "ready") =>
            LET pw == SelectSeq(issued', IsPower)
                n  == Len(issued')
            IN  /\ Len(pw) = 2
                /\ pw[1].mode = "POWERDOWN" /\ pw[2].mode = "UNBLANK"
                /\ issued'[n - 1] = pw[1] /\ issued'[n] = pw[2]
                /\ double_buffered' =>
                      n = 3 /\ issued'[1].cmd = "FBIOPUT_VSCREENINFO"
                /\ \A i \in 1..2 :
                      DrawFill(gr_draw', gr_framebuffer', heap') \in pw[i].zeroed
       /\ (pc = "start" /\ pc' # "ready") =>
            SelectSeq(issued', IsPower) = <<>>]_vars

C14_Witness ==
    /\ Hardware /\ flips = 0 /\ draws = 0
    /\ Len(issued) = 3
    /\ issued[1].cmd = "FBIOPUT_VSCREENINFO" /\ ~issued[1].ok
    /\ issued[2].mode = "POWERDOWN" /\ issued[2].ok
    /\ issued[3].mode = "UNBLANK" /\ ~issued[3].ok
    /\ hw.blank = "POWERDOWN"

\* C15: double_buffered is written by init only: no flip, blank, draw or
\* teardown step changes the value init gave it.
C15_StrategyImmutable ==
    [][pc # "start" => double_buffered' = double_buffered]_vars

C15_Witness ==
    /\ pc = "closed" /\ double_buffered /\ flips = 2 /\ draws = 1
    /\ gr_draw = "NULL" /\ displayed_buffer = 0

\* blank(true) called right after a blank(true)
RepeatedPowerDown ==
    /\ BlankStep
    /\ Len(issued) = 1 /\ issued[1].cmd = "FBIOBLANK"
    /\ issued[1].mode = "POWERDOWN"
    /\ issued'[1].mode = "POWERDOWN"

\* C16: blank(true) issued twice in a row leaves the device in the same
\* power state, and the component in the same state, as issuing it once.
C16_BlankIdempotent ==
    [][RepeatedPowerDown =>
         /\ hw' = hw
         /\ UNCHANGED <<gr_draw, displayed_buffer, double_buffered,
                        gr_framebuffer, vi, fbi, heap, mem, pc, ret>>]_vars

\* C16, amended: the second blank(true) leaves the component as the first
\* left it and sends the same command; the device is in the power state the
\* first call left unless it rejected the first command and accepts the
\* second, and then it is powered down, as after one accepted call.
C16_BlankIdempotentAccepted ==
    [][RepeatedPowerDown =>
         /\ UNCHANGED <<gr_draw, displayed_buffer, double_buffered,
                        gr_framebuffer, vi, fbi, heap, mem, pc, ret>>
         /\ issued'[1].info = issued[1].info
         /\ (issued[1].ok \/ ~issued'[1].ok) => hw' = hw
         /\ issued[1].ok => hw'.blank = "POWERDOWN"
         /\ (~issued[1].ok /\ issued'[1].ok) =>
               hw' = [hw EXCEPT !.blank = "POWERDOWN"]]_vars

C16_Witness ==
    /\ pc = "ready" /\ flips = 0 /\ draws = 0
    /\ Len(issued) = 1 /\ issued[1].cmd = "FBIOBLANK"
    /\ issued[1].mode = "POWERDOWN" /\ ~issued[1].ok
    /\ hw.blank = "POWERDOWN"

\* C17: under the software strategy every flip returns the draw surface init
\* returned (the shadow descriptor), leaves gr_draw, displayed_buffer and vi
\* unchanged, and issues no device command.
C17_SoftwareDrawStable ==
    [][(pc = "ready" /\ ~double_buffered /\ flips' = flips + 1) =>
         /\ gr_draw = "heap"
         /\ UNCHANGED <<gr_draw, displayed_buffer, vi>>
         /\ heap'.surface = heap.surface
         /\ issued' = <<>>
         /\ hw' = hw
         /\ pc' = "ready" => ret' = "heap"]_vars

C17_Witness ==
    /\ Software /\ flips = 2 /\ draws = 1
    /\ gr_draw = "heap" /\ ret = "heap"
    /\ displayed_buffer = 0 /\ vi.yoffset = 0
    /\ issued = <<>>
    /\ span.wr > 0

\* the record r asks for two buffers of surface s0 and for offset y
CommitRecord(r, s0, y) ==
    /\ r.cmd = "FBIOPUT_VSCREENINFO"
    /\ r.info.yres_virtual = 2 * s0.height
    /\ r.info.bits_per_pixel = s0.pixel_bytes * 8
    /\ r.info.yoffset = y

\* C18: under the hardware strategy the record init pushes to the device has
\* yres_virtual = 2 * height, bits_per_pixel = pixel_bytes * 8 and yoffset = 0,
\* the record a flip pushes has the same two fields and yoffset =
\* (1 - previous displayed_buffer) * height, and in every state after init
\* vi.yoffset = displayed_buffer * height.
C18_CommitRecord ==
    [][/\ (pc = "start" /\ pc' = "ready" /\ double_buffered') =>
            CommitRecord(issued'[1], gr_framebuffer'[0], 0)
       /\ (pc = "ready" /\ double_buffered /\ flips' = flips + 1) =>
            /\ Len(issued') = 1
            /\ CommitRecord(issued'[1], gr_framebuffer[0],
                            (1 - displayed_buffer) * gr_framebuffer[0].height)
       /\ (pc' = "ready" /\ double_buffered') =>
            /\ vi'.yoffset = displayed_buffer' * gr_framebuffer'[0].height
            /\ vi'.yres_virtual = 2 * gr_framebuffer'[0].height
            /\ vi'.bits_per_pixel = gr_framebuffer'[0].pixel_bytes * 8]_vars

C18_Witness ==
    /\ Hardware /\ flips = 1 /\ displayed_buffer = 1
    /\ gr_framebuffer[0].height = 2 /\ gr_framebuffer[0].pixel_bytes = 2
    /\ Len(issued) = 1 /\ issued[1].cmd = "FBIOPUT_VSCREENINFO"
    /\ issued[1].info.yoffset = 2 /\ issued[1].info.yres_virtual = 4
    /\ issued[1].info.bits_per_pixel = 16
    /\ vi.yoffset = 2 /\ hw.yoffset = 2

\* C19: after a successful init under either strategy the primary buffer's
\* extent height * row_bytes is at most the device's video memory size, so
\* neither init's zero-fill of buffer 0 nor a software flip's copy has
\* written outside device memory, whatever geometry the device reported.
C19_DeviceBounds ==
    pc = "ready" =>
        /\ Extent(gr_framebuffer[0]) <= fb.smem_len
        /\ InDevice(gr_framebuffer[0].data.off, Extent(gr_framebuffer[0]),
                    fb.smem_len)
        /\ ~oob

\* the buffer the device scans out: the one its applied offset selects
Presented ==
    IF hw.yoffset < gr_framebuffer[0].height THEN "fb0" ELSE "fb1"

\* C20: under the hardware strategy, after init and after any flips, gr_draw
\* is never the buffer the device presents (the one selected by the offset
\* of the last commit the device applied, or by its offset before init if it
\* applied none), whichever commits the device accepts or rejects.
C20_NeverDrawPresented == Hardware => gr_draw # Presented

====
